---- MODULE Spec2Model ----
(***************************************************************************)
(* Model of script.js: the step-archetype registry (stepTypes), one        *)
(* classifier pass over it, and the main loop of main() with its           *)
(* retry / stuck tracking.  Strings are sequences of one-character         *)
(* strings so that String.prototype.includes and toLowerCase are computed  *)
(* rather than assumed.                                                    *)
(***************************************************************************)
EXTENDS Integers, Sequences, FiniteSets, TLC

(* ------------------------------------------------------------------ *)
(* Strings                                                              *)
(* ------------------------------------------------------------------ *)

\* s.includes(sub)
Includes(s, sub) ==
  \E i \in 0..(Len(s) - Len(sub)) : SubSeq(s, i + 1, i + Len(sub)) = sub

UpperToLower ==
  [A |-> "a", B |-> "b", C |-> "c", D |-> "d", E |-> "e", F |-> "f", G |-> "g",
   H |-> "h", I |-> "i", J |-> "j", K |-> "k", L |-> "l", M |-> "m", N |-> "n",
   O |-> "o", P |-> "p", Q |-> "q", R |-> "r", S |-> "s", T |-> "t", U |-> "u",
   V |-> "v", W |-> "w", X |-> "x", Y |-> "y", Z |-> "z"]

\* s.toLowerCase()
ToLowerCase(s) ==
  [i \in 1..Len(s) |-> IF s[i] \in DOMAIN UpperToLower THEN UpperToLower[s[i]] ELSE s[i]]

(* ------------------------------------------------------------------ *)
(* Page state as the page driver exposes it                             *)
(* ------------------------------------------------------------------ *)

\* getAttribute('data-locator'): <<>> is null, <<v>> is the attribute value v
NoLocator == <<>>

Locator(v) == <<v>>

\* JavaScript truthiness of an attribute value: neither null nor ''
Truthy(a) == a # <<>> /\ a[1] # <<>>

Button(loc, txt, vis, en) ==
  [tag |-> "button", locator |-> loc, text |-> txt, visible |-> vis, enabled |-> en]

Input(loc, vis, en) ==
  [tag |-> "input", locator |-> loc, text |-> <<>>, visible |-> vis, enabled |-> en]

Div(loc, txt) ==
  [tag |-> "div", locator |-> loc, text |-> txt, visible |-> TRUE, enabled |-> TRUE]

UrlQuiz == <<"/","q","u","i","z">>

UrlPlan == <<"/","p","l","a","n">>

UrlResult == <<"/","r","e","s","u","l","t">>

\* The pages the loop is run against: url, document text outside the
\* listed elements, and the elements in document order.
Pages == <<
  \* 1: a screen no archetype recognises, no completion vocabulary
  [url |-> UrlQuiz, text |-> <<"L","o","a","d","i","n","g">>,
   elems |-> << Div(NoLocator, <<"P","l","e","a","s","e"," ","w","a","i","t">>) >>],
  \* 2: same location, unrecognised, with completion vocabulary
  [url |-> UrlQuiz, text |-> <<"W","e","l","c","o","m","e">>,
   elems |-> << Div(Locator(<<"b","a","n","n","e","r">>), <<"T","h","a","n","k","s">>) >>],
  \* 3: another location, unrecognised (its call-to-action is disabled)
  [url |-> UrlPlan, text |-> <<"P","l","a","n">>,
   elems |-> << Button(Locator(<<"o","b","C","T","A","B","u","t","t","o","n">>), <<"N","e","x","t">>, TRUE, FALSE) >>],
  \* 4: a skip control next to a call-to-action button, with vocabulary
  [url |-> UrlQuiz, text |-> <<"A","l","m","o","s","t"," ","d","o","n","e">>,
   elems |-> << Button(Locator(<<"C","T","A","B","u","t","t","o","n">>), <<"C","o","n","t","i","n","u","e">>, TRUE, TRUE),
                Button(Locator(<<"s","k","i","p","_","b","t","n">>), <<"S","k","i","p">>, TRUE, TRUE) >>],
  \* 5: a result screen with one action button and vocabulary
  [url |-> UrlResult, text |-> <<"C","o","n","g","r","a","t","u","l","a","t","i","o","n","s">>,
   elems |-> << Button(Locator(<<"g","e","t","_","p","l","a","n">>), <<"G","e","t"," ","m","y"," ","p","l","a","n">>, TRUE, TRUE) >>],
  \* 6: a multi-select group with its confirm button
  [url |-> UrlPlan, text |-> <<"P","i","c","k"," ","y","o","u","r"," ","g","o","a","l","s">>,
   elems |-> << Input(Locator(<<"m","u","l","t","i","_","s","e","l","e","c","t","_","1">>), TRUE, TRUE),
                Button(Locator(<<"o","b","C","T","A","B","u","t","t","o","n">>), <<"C","o","n","t","i","n","u","e">>, TRUE, TRUE) >>]
>>

PageIds == 1..Len(Pages)

\* page.url()
Url(pg) == pg.url

\* page.$$('button'), page.$$('input'): indices in document order
Buttons(pg) == {i \in 1..Len(pg.elems) : pg.elems[i].tag = "button"}

Inputs(pg) == {i \in 1..Len(pg.elems) : pg.elems[i].tag = "input"}

\* el matches tag[data-locator*=sub] ("*" is any tag)
MatchesSelector(el, tag, sub) ==
  /\ tag = "*" \/ el.tag = tag
  /\ el.locator # NoLocator
  /\ Includes(el.locator[1], sub)

\* page.$(sel) !== null for a selector list sel of tag[data-locator*=sub] parts
Exists(pg, tag, subs) ==
  \E i \in 1..Len(pg.elems) : \E sub \in subs : MatchesSelector(pg.elems[i], tag, sub)

(* ------------------------------------------------------------------ *)
(* Step archetype registry: the detect functions                        *)
(* ------------------------------------------------------------------ *)

skip_button_detect(pg) ==
  \E i \in Buttons(pg) :
    LET locator == pg.elems[i].locator
        text    == pg.elems[i].text
    IN /\ Truthy(locator)
       /\ Includes(locator[1], <<"s","k","i","p">>) \/ Includes(ToLowerCase(text), <<"s","k","i","p">>)
       /\ pg.elems[i].visible
       /\ pg.elems[i].enabled
       /\ ~Includes(ToLowerCase(text), <<"b","a","c","k">>)

\* The detect of multi_select_button also asks for a visible input
multi_select_button_detect_VisibleInput(pg) ==
  /\ \E i \in Inputs(pg) :
       /\ MatchesSelector(pg.elems[i], "input", <<"m", "u", "l", "t", "i", "_", "s", "e", "l", "e", "c", "t">>)
       /\ pg.elems[i].visible
  /\ Exists(pg, "*", {<<"C", "T", "A", "B", "u", "t", "t", "o", "n">>})

multi_select_button_detect(pg) ==
  /\ Exists(pg, "input", {<<"m","u","l","t","i","_","s","e","l","e","c","t">>})
  /\ Exists(pg, "*", {<<"C","T","A","B","u","t","t","o","n">>})

email_input_detect(pg) == Exists(pg, "input", {<<"e","m","a","i","l","_","i","n","p","u","t">>})

number_input_detect(pg) ==
  Exists(pg, "input", {<<"h","e","i","g","h","t","_","m","e","t","r","i","c","_","i","n","p","u","t">>, <<"w","e","i","g","h","t","_","m","e","t","r","i","c","_","i","n","p","u","t">>, <<"o","b","_","a","g","e","_","i","n","p","u","t">>})

single_button_detect(pg) ==
  \E i \in Buttons(pg) :
    LET locator == pg.elems[i].locator
    IN /\ Truthy(locator)
       /\ \/ Includes(locator[1], <<"C","T","A","B","u","t","t","o","n">>)
          \/ Includes(locator[1], <<"t","C","T","A","B","u","t","t","o","n">>)
          \/ Includes(locator[1], <<"o","b","_","c","o","n","t","i","n","u","e","_","b","t","n">>)
          \/ Includes(locator[1], <<"o","b","C","o","n","t","i","n","u","e">>)
       /\ pg.elems[i].enabled
       /\ ~Includes(locator[1], <<"b","a","c","k">>)

option_detect(pg) == Exists(pg, "*", {<<"o","p","t","i","o","n">>, <<"o","p","t","i","o","n","_","s","q","u","a","r","e">>})

single_option_detect(pg) == Exists(pg, "input", {<<"s","i","n","g","l","e","_","s","e","l","e","c","t">>})

multi_option_detect(pg) ==
  /\ Exists(pg, "input", {<<"m","u","l","t","i","_","s","e","l","e","c","t">>})
  /\ Exists(pg, "*", {<<"C","T","A","B","u","t","t","o","n">>})

occasion_result_screen_detect(pg) ==
  /\ Includes(Url(pg), <<"r","e","s","u","l","t">>)
  /\ \A i \in Inputs(pg) : pg.elems[i].locator = NoLocator

\* The registry with single_button registered ahead of skip_button
stepTypes_SingleFirst ==
  << "single_button", "skip_button", "multi_select_button", "email_input",
     "number_input", "option", "single_option", "multi_option",
     "occasion_result_screen" >>

\* The registry in registration order
stepTypes ==
  << "skip_button", "multi_select_button", "email_input", "number_input",
     "single_button", "option", "single_option", "multi_option",
     "occasion_result_screen" >>

\* stepType.detect() of the archetype called name
Detect(name, pg) ==
  CASE name = "skip_button"            -> skip_button_detect(pg)
    [] name = "multi_select_button"    -> multi_select_button_detect(pg)
    [] name = "email_input"            -> email_input_detect(pg)
    [] name = "number_input"           -> number_input_detect(pg)
    [] name = "single_button"          -> single_button_detect(pg)
    [] name = "option"                 -> option_detect(pg)
    [] name = "single_option"          -> single_option_detect(pg)
    [] name = "multi_option"           -> multi_option_detect(pg)
    [] name = "occasion_result_screen" -> occasion_result_screen_detect(pg)

(* ------------------------------------------------------------------ *)
(* Step archetype registry: the solve functions                         *)
(* ------------------------------------------------------------------ *)

\* The document is taken as it stands when solve is entered; failing is the
\* element whose click or fill rejects for a reason of its own (detached,
\* covered), 0 if there is none.

\* element.click() and element.fill() wait until the element is visible and
\* enabled and reject when it does not become so in time
Actionable(pg, i, failing) ==
  pg.elems[i].visible /\ pg.elems[i].enabled /\ i # failing

\* One click or fill issued by a solve: on which element, in which role, and
\* whether it returned ("ok") or rejected ("throw")
Act(op, target, role, pg, failing) ==
  [op |-> op, target |-> target, role |-> role,
   res |-> IF Actionable(pg, target, failing) THEN "ok" ELSE "throw"]

\* solve returned after these clicks and fills / threw after them
Returned(done) == [acts |-> done, threw |-> FALSE]

Thrown(done) == [acts |-> done, threw |-> TRUE]

\* page.$(sel): the first element in document order that matches a part of
\* the selector list, 0 for null
First(pg, tag, subs) ==
  LET hits == {i \in 1..Len(pg.elems) :
                 \E sub \in subs : MatchesSelector(pg.elems[i], tag, sub)}
  IN IF hits = {} THEN 0 ELSE CHOOSE i \in hits : \A j \in hits : i <= j

\* An unguarded click or fill on page.$(...) after the acts in done: nothing
\* happens for null, a rejection ends the solve
Unguarded(done, op, target, role, pg, failing) ==
  IF target = 0 THEN Returned(done)
  ELSE IF Actionable(pg, target, failing)
       THEN Returned(Append(done, Act(op, target, role, pg, failing)))
       ELSE Thrown(Append(done, Act(op, target, role, pg, failing)))

\* for (...) { if (candidate) { try { await el.click(); break; } catch {} } }:
\* the candidates (a set of positions) are clicked in document order up to the first click that
\* returns
ClickFirstThatWorks(pg, failing, candidates, role) ==
  LET From[i \in 1..(Len(pg.elems) + 1)] ==
        IF i > Len(pg.elems) THEN << >>
        ELSE IF i \in candidates
             THEN IF Actionable(pg, i, failing)
                  THEN << Act("click", i, role, pg, failing) >>
                  ELSE << Act("click", i, role, pg, failing) >> \o From[i + 1]
             ELSE From[i + 1]
  IN From[1]

\* Some click in the log returned
SomeClickWorked(done) == \E k \in 1..Len(done) : done[k].res = "ok"

\* The condition skip_button tests on a button, in detect and in solve
skip_button_candidate(pg, i) ==
  LET locator == pg.elems[i].locator
      text    == pg.elems[i].text
  IN /\ pg.elems[i].tag = "button"
     /\ Truthy(locator)
     /\ Includes(locator[1], <<"s", "k", "i", "p">>) \/ Includes(ToLowerCase(text), <<"s", "k", "i", "p">>)
     /\ pg.elems[i].visible
     /\ pg.elems[i].enabled
     /\ ~Includes(ToLowerCase(text), <<"b", "a", "c", "k">>)

skip_button_solve(pg, failing) ==
  LET candidates == {i \in 1..Len(pg.elems) : skip_button_candidate(pg, i)}
  IN Returned(ClickFirstThatWorks(pg, failing, candidates, "skip"))

\* The confirm click is made whether or not an input was clicked
multi_select_button_solve_AlwaysConfirm(pg, failing) ==
  LET candidates == {i \in 1..Len(pg.elems) :
                       /\ MatchesSelector(pg.elems[i], "input", <<"m", "u", "l", "t", "i", "_", "s", "e", "l", "e", "c", "t">>)
                       /\ pg.elems[i].visible
                       /\ pg.elems[i].enabled}
      clicks == ClickFirstThatWorks(pg, failing, candidates, "input")
  IN IF First(pg, "input", {<<"m", "u", "l", "t", "i", "_", "s", "e", "l", "e", "c", "t">>}) = 0 THEN Returned(<< >>)
     ELSE Unguarded(clicks, "click", First(pg, "*", {<<"C", "T", "A", "B", "u", "t", "t", "o", "n">>}), "confirm",
                    pg, failing)

multi_select_button_solve(pg, failing) ==
  LET candidates == {i \in 1..Len(pg.elems) :
                       /\ MatchesSelector(pg.elems[i], "input", <<"m", "u", "l", "t", "i", "_", "s", "e", "l", "e", "c", "t">>)
                       /\ pg.elems[i].visible
                       /\ pg.elems[i].enabled}
      clicks == ClickFirstThatWorks(pg, failing, candidates, "input")
  IN IF First(pg, "input", {<<"m", "u", "l", "t", "i", "_", "s", "e", "l", "e", "c", "t">>}) = 0 THEN Returned(<< >>)
     ELSE IF ~SomeClickWorked(clicks) THEN Returned(clicks)
     ELSE Unguarded(clicks, "click", First(pg, "*", {<<"C", "T", "A", "B", "u", "t", "t", "o", "n">>}), "confirm",
                    pg, failing)

email_input_solve(pg, failing) ==
  LET filled == Unguarded(<< >>, "fill", First(pg, "input", {<<"e", "m", "a", "i", "l", "_", "i", "n", "p", "u", "t">>}),
                          "email", pg, failing)
  IN IF filled.threw \/ filled.acts = << >> THEN filled
     ELSE Unguarded(filled.acts, "click",
                    First(pg, "button", {<<"o", "b", "C", "o", "n", "t", "i", "n", "u", "e">>, <<"C", "T", "A", "B", "u", "t", "t", "o", "n">>, <<"t", "C", "T", "A", "B", "u", "t", "t", "o", "n">>}),
                    "confirm", pg, failing)

number_input_solve(pg, failing) ==
  LET height == Unguarded(<< >>, "fill",
                          First(pg, "input", {<<"h", "e", "i", "g", "h", "t", "_", "m", "e", "t", "r", "i", "c", "_", "i", "n", "p", "u", "t">>}),
                          "height", pg, failing)
      weight == IF height.threw THEN height
                ELSE Unguarded(height.acts, "fill",
                               First(pg, "input", {<<"w", "e", "i", "g", "h", "t", "_", "m", "e", "t", "r", "i", "c", "_", "i", "n", "p", "u", "t">>}),
                               "weight", pg, failing)
      age    == IF weight.threw THEN weight
                ELSE Unguarded(weight.acts, "fill",
                               First(pg, "input", {<<"o", "b", "_", "a", "g", "e", "_", "i", "n", "p", "u", "t">>}),
                               "age", pg, failing)
      btn    == First(pg, "button", {<<"C", "T", "A", "B", "u", "t", "t", "o", "n">>, <<"o", "b", "_", "c", "o", "n", "t", "i", "n", "u", "e", "_", "b", "t", "n">>})
  IN IF age.threw THEN age
     ELSE IF btn # 0 /\ pg.elems[btn].enabled
          THEN Unguarded(age.acts, "click", btn, "confirm", pg, failing)
          ELSE age

\* The button is clicked a second time
single_button_solve_Twice(pg, failing) ==
  LET btn == First(pg, "button",
                   {<<"C", "T", "A", "B", "u", "t", "t", "o", "n">>, <<"t", "C", "T", "A", "B", "u", "t", "t", "o", "n">>, <<"o", "b", "_", "c", "o", "n", "t", "i", "n", "u", "e", "_", "b", "t", "n">>, <<"o", "b", "C", "o", "n", "t", "i", "n", "u", "e">>})
  IN IF btn = 0 THEN Returned(<< >>)
     ELSE Returned(<< Act("click", btn, "cta", pg, failing),
                      Act("click", btn, "cta", pg, failing) >>)

\* try { btn = page.$(...); if (btn) { await btn.click(); ... } } catch {...}
single_button_solve(pg, failing) ==
  LET btn == First(pg, "button",
                   {<<"C", "T", "A", "B", "u", "t", "t", "o", "n">>, <<"t", "C", "T", "A", "B", "u", "t", "t", "o", "n">>, <<"o", "b", "_", "c", "o", "n", "t", "i", "n", "u", "e", "_", "b", "t", "n">>, <<"o", "b", "C", "o", "n", "t", "i", "n", "u", "e">>})
  IN IF btn = 0 THEN Returned(<< >>)
     ELSE Returned(<< Act("click", btn, "cta", pg, failing) >>)

option_solve(pg, failing) ==
  LET btn == First(pg, "*", {<<"o", "p", "t", "i", "o", "n">>, <<"o", "p", "t", "i", "o", "n", "_", "s", "q", "u", "a", "r", "e">>})
  IN IF btn = 0 THEN Returned(<< >>)
     ELSE IF \/ ~pg.elems[btn].visible
             \/ ~pg.elems[btn].enabled
             \/ Includes(ToLowerCase(pg.elems[btn].text), <<"b", "a", "c", "k">>)
          THEN Returned(<< >>)
          ELSE Returned(<< Act("click", btn, "option", pg, failing) >>)

single_option_solve(pg, failing) ==
  LET candidates == {i \in 1..Len(pg.elems) :
                       /\ MatchesSelector(pg.elems[i], "input", <<"s", "i", "n", "g", "l", "e", "_", "s", "e", "l", "e", "c", "t">>)
                       /\ pg.elems[i].visible
                       /\ pg.elems[i].enabled}
  IN Returned(ClickFirstThatWorks(pg, failing, candidates, "input"))

multi_option_solve(pg, failing) ==
  LET input == Unguarded(<< >>, "click", First(pg, "input", {<<"m", "u", "l", "t", "i", "_", "s", "e", "l", "e", "c", "t">>}),
                         "input", pg, failing)
  IN IF input.threw THEN input
     ELSE Unguarded(input.acts, "click", First(pg, "*", {<<"C", "T", "A", "B", "u", "t", "t", "o", "n">>}), "confirm",
                    pg, failing)

\* for (const button of page.$$('button:visible')) { ... }: locator.toLowerCase()
\* is reached for an enabled button whose text has no "back", and throws a
\* TypeError when the button has no data-locator attribute
occasion_result_screen_solve(pg, failing) ==
  LET From[i \in 1..(Len(pg.elems) + 1)] ==
        IF i > Len(pg.elems) THEN Returned(<< >>)
        ELSE LET el == pg.elems[i] IN
             IF el.tag # "button" \/ ~el.visible THEN From[i + 1]
             ELSE IF ~el.enabled \/ Includes(ToLowerCase(el.text), <<"b", "a", "c", "k">>)
                  THEN From[i + 1]
             ELSE IF el.locator = NoLocator THEN Thrown(<< >>)
             ELSE IF Includes(ToLowerCase(el.locator[1]), <<"b", "a", "c", "k">>) THEN From[i + 1]
             ELSE IF Actionable(pg, i, failing)
                  THEN Returned(<< Act("click", i, "continue", pg, failing) >>)
                  ELSE [From[i + 1] EXCEPT
                          !.acts = << Act("click", i, "continue", pg, failing) >> \o @]
  IN From[1]

\* stepType.solve() of the archetype called name
Solve(name, pg, failing) ==
  CASE name = "skip_button"            -> skip_button_solve(pg, failing)
    [] name = "multi_select_button"    -> multi_select_button_solve(pg, failing)
    [] name = "email_input"            -> email_input_solve(pg, failing)
    [] name = "number_input"           -> number_input_solve(pg, failing)
    [] name = "single_button"          -> single_button_solve(pg, failing)
    [] name = "option"                 -> option_solve(pg, failing)
    [] name = "single_option"          -> single_option_solve(pg, failing)
    [] name = "multi_option"           -> multi_option_solve(pg, failing)
    [] name = "occasion_result_screen" -> occasion_result_screen_solve(pg, failing)

(* ------------------------------------------------------------------ *)
(* Bounds of the exploration and constants of the program               *)
(* ------------------------------------------------------------------ *)

\* const MAX_RETRIES = 300
MAX_RETRIES == 300

\* if (stuckCount > 5): the completion scan runs above this count
LowThreshold == 5

\* if (stuckCount > 10): the stuck exit is taken above this count
HighThreshold == 10

\* progress iterations are explored while screenshotCounter stays within MaxShots
MaxShots == 1

\* a failing completion scan is explored while stuckCount stays within MaxStuck
MaxStuck == 12

\* the per-iteration history (outcome, previous location, no-match run) is
\* recorded for the first StallWindow iterations of a run
StallWindow == 13

\* the call log of an iteration is recorded for the first PassWindow iterations
PassWindow == 2

(* ------------------------------------------------------------------ *)
(* Failures of the page driver                                          *)
(* ------------------------------------------------------------------ *)

NoFailure == [op |-> "none", name |-> "-"]

\* The awaited call of an iteration that rejects, if any.  single_button.solve
\* wraps its whole body in try/catch, so it is not listed.
FailPoints ==
  {NoFailure}
    \cup {[op |-> "detect", name |-> stepTypes[i]] : i \in 1..Len(stepTypes)}
    \cup {[op |-> "solve", name |-> stepTypes[i]] :
            i \in {j \in 1..Len(stepTypes) : stepTypes[j] # "single_button"}}
    \cup {[op |-> o, name |-> "-"] : o \in {"screenshot", "diagnostics", "scan", "wait"}}

Call(op, name, res) == [op |-> op, name |-> name, res |-> res]

(* ------------------------------------------------------------------ *)
(* Classifier pass: for (const stepType of stepTypes) { ... }           *)
(* ------------------------------------------------------------------ *)

\* detect() rejected and the rejection is swallowed: the pass goes on to rest
OnDetectThrow_Swallow(name, rest) ==
  [rest EXCEPT !.calls = << Call("detect", name, "throw") >> \o @]

\* await stepType.detect() rejects: nothing in the for loop catches it, so
\* control leaves the pass for the catch of the main loop (rest is not run)
OnDetectThrow(name, rest) ==
  [stepSolved |-> FALSE, threw |-> "detect",
   calls |-> << Call("detect", name, "throw") >>]

\* solve() returned and the break is missing: the pass goes on to rest
OnSolved_NoBreak(name, rest) ==
  [rest EXCEPT !.stepSolved = TRUE,
               !.calls = << Call("detect", name, "true"), Call("solve", name, "ok") >> \o @]

\* await stepType.solve(); stepSolved = true; break;  (rest is not run)
OnSolved(name, rest) ==
  [stepSolved |-> TRUE, threw |-> "none",
   calls |-> << Call("detect", name, "true"), Call("solve", name, "ok") >>]

\* The for loop over stepTypes.  From[i] is the loop from its i-th archetype
\* on: whether stepSolved was set, the call that rejected, the calls made.
ClassifierPass(pg, fail) ==
  LET From[i \in 1..(Len(stepTypes) + 1)] ==
        IF i > Len(stepTypes)
        THEN [stepSolved |-> FALSE, threw |-> "none", calls |-> <<>>]
        ELSE LET name == stepTypes[i] IN
             IF fail = [op |-> "detect", name |-> name]
             THEN OnDetectThrow(name, From[i + 1])
             ELSE IF Detect(name, pg)
             THEN IF fail = [op |-> "solve", name |-> name]
                  THEN [stepSolved |-> FALSE, threw |-> "solve",
                        calls |-> << Call("detect", name, "true"),
                                     Call("solve", name, "throw") >>]
                  ELSE OnSolved(name, From[i + 1])
             ELSE [From[i + 1] EXCEPT !.calls = << Call("detect", name, "false") >> \o @]
  IN From[1]

\* The pass on each page of Pages under each failure, computed once
PassOn ==
  [p \in PageIds |-> [fail \in FailPoints |-> ClassifierPass(Pages[p], fail)]]

\* The failures an iteration on page p can meet: a detect or solve can only
\* reject if the pass calls it
FailPointsOn ==
  [p \in PageIds |->
     {fail \in FailPoints :
        fail.op \in {"detect", "solve"} =>
          \E i \in 1..Len(PassOn[p][fail].calls) :
            /\ PassOn[p][fail].calls[i].op = fail.op
            /\ PassOn[p][fail].calls[i].name = fail.name}]

(* ------------------------------------------------------------------ *)
(* Main loop body                                                       *)
(* ------------------------------------------------------------------ *)

CompletionWords ==
  {<<"c","o","m","p","l","e","t","e">>, <<"f","i","n","i","s","h">>, <<"d","o","n","e">>, <<"s","u","c","c","e","s","s">>, <<"c","o","n","g","r","a","t","u","l","a","t","i","o","n","s">>, <<"w","e","l","c","o","m","e">>}

\* page.$$eval('*', elements => elements.some(el => ...)): the root element's
\* textContent holds the page text and every element's, so one word anywhere
\* on the page suffices
CompletionIndicators(pg) ==
  LET Upto[i \in 0..Len(pg.elems)] ==
        IF i = 0 THEN pg.text ELSE Upto[i - 1] \o pg.elems[i].text
      text == ToLowerCase(Upto[Len(pg.elems)])
  IN \E w \in CompletionWords : Includes(text, w)

\* The completion scan on each page of Pages, computed once
IndicatorsOn == [p \in PageIds |-> CompletionIndicators(Pages[p])]

\* The catch of the main loop leaves retryCount as it is
CatchBlock_NoCount(st, at, calls) ==
  [st EXCEPT !.outcome = [kind |-> "exception", at |-> at], !.calls = calls]

\* catch (err) { console.log(...); retryCount++; }
CatchBlock(st, at, calls) ==
  [st EXCEPT !.retryCount = @ + 1,
             !.outcome = [kind |-> "exception", at |-> at],
             !.calls = calls]

\* The progress branch forgets to reset stuckCount
ProgressBranch_NoReset(st, fail, calls) ==
  LET shot == [st EXCEPT !.screenshotCounter = @ + 1] IN
  IF fail.op = "screenshot"
  THEN CatchBlock(shot, "screenshot", Append(calls, Call("screenshot", "-", "throw")))
  ELSE [shot EXCEPT !.retryCount = @ + 1,
                    !.outcome = [kind |-> "progress", at |-> "none"],
                    !.calls = Append(calls, Call("screenshot", "-", "ok"))]

\* if (stepSolved) { screenshotCounter++; await page.screenshot(...);
\*                   stuckCount = 0; retryCount++; continue; }
ProgressBranch(st, fail, calls) ==
  LET shot == [st EXCEPT !.screenshotCounter = @ + 1] IN
  IF fail.op = "screenshot"
  THEN CatchBlock(shot, "screenshot", Append(calls, Call("screenshot", "-", "throw")))
  ELSE [shot EXCEPT !.stuckCount = 0,
                    !.retryCount = @ + 1,
                    !.outcome = [kind |-> "progress", at |-> "none"],
                    !.calls = Append(calls, Call("screenshot", "-", "ok"))]

\* A changed location leaves stuckCount as it is
StuckUpdate_NoReset(stuck, currentUrl, last) ==
  IF currentUrl = last THEN stuck + 1 ELSE stuck

\* if (currentUrl === lastUrl) { stuckCount++; ... } else { stuckCount = 0; }
StuckUpdate(stuck, currentUrl, last) ==
  IF currentUrl = last THEN stuck + 1 ELSE 0

\* The completion scan starts one count early
ScanDue_Early(stuck) == stuck >= LowThreshold

\* if (stuckCount > 5)
ScanDue(stuck) == stuck > LowThreshold

\* The stuck exit is tested before the completion indicators
StuckDecision_AbortFirst(stuck, indicators) ==
  IF stuck > HighThreshold THEN "stuck"
  ELSE IF indicators THEN "complete"
  ELSE "continue"

\* The stuck exit is taken one count late
StuckDecision_Late(stuck, indicators) ==
  IF indicators THEN "complete"
  ELSE IF stuck > HighThreshold + 1 THEN "stuck"
  ELSE "continue"

\* if (completionIndicators) { break; }  if (stuckCount > 10) { break; }
StuckDecision(stuck, indicators) ==
  IF indicators THEN "complete"
  ELSE IF stuck > HighThreshold THEN "stuck"
  ELSE "continue"

\* The end of a no-match iteration leaves retryCount as it is
WaitAndCount_NoCount(st, currentUrl, fail, calls) ==
  LET seen == [st EXCEPT !.lastUrl = currentUrl] IN
  IF fail.op = "wait"
  THEN CatchBlock(seen, "wait", Append(calls, Call("wait", "-", "throw")))
  ELSE [seen EXCEPT !.outcome = [kind |-> "nomatch", at |-> "none"],
                    !.calls = Append(calls, Call("wait", "-", "ok"))]

\* The end of a no-match iteration leaves lastUrl as it is
WaitAndCount_KeepUrl(st, currentUrl, fail, calls) ==
  IF fail.op = "wait"
  THEN CatchBlock(st, "wait", Append(calls, Call("wait", "-", "throw")))
  ELSE [st EXCEPT !.retryCount = @ + 1,
                  !.outcome = [kind |-> "nomatch", at |-> "none"],
                  !.calls = Append(calls, Call("wait", "-", "ok"))]

\* lastUrl = currentUrl; await page.waitForTimeout(2000); retryCount++;
WaitAndCount(st, currentUrl, fail, calls) ==
  LET seen == [st EXCEPT !.lastUrl = currentUrl] IN
  IF fail.op = "wait"
  THEN CatchBlock(seen, "wait", Append(calls, Call("wait", "-", "throw")))
  ELSE [seen EXCEPT !.retryCount = @ + 1,
                    !.outcome = [kind |-> "nomatch", at |-> "none"],
                    !.calls = Append(calls, Call("wait", "-", "ok"))]

\* const currentUrl = page.url(); ... down to the end of the try block
StuckTracking(st, p, fail, calls) ==
  LET currentUrl == Url(Pages[p])
      counted    == [st EXCEPT !.stuckCount = StuckUpdate(@, currentUrl, st.lastUrl)]
  IN IF currentUrl = st.lastUrl /\ ScanDue(counted.stuckCount)
     THEN IF fail.op = "scan"
          THEN CatchBlock(counted, "scan", Append(calls, Call("scan", "-", "throw")))
          ELSE LET scanned  == Append(calls, Call("scan", "-", "ok"))
                   decision == StuckDecision(counted.stuckCount, IndicatorsOn[p])
               IN IF decision = "complete"
                  THEN [counted EXCEPT !.status = "COMPLETE",
                                       !.outcome = [kind |-> "complete", at |-> "none"],
                                       !.calls = scanned]
                  ELSE IF decision = "stuck"
                  THEN [counted EXCEPT !.status = "ABORTED_STUCK",
                                       !.outcome = [kind |-> "stuck", at |-> "none"],
                                       !.calls = scanned]
                  ELSE WaitAndCount(counted, currentUrl, fail, scanned)
     ELSE WaitAndCount(counted, currentUrl, fail, calls)

\* The no-match fallback: the diagnostic enumeration, then the stuck tracking
NoMatchBranch(st, p, fail, calls) ==
  IF fail.op = "diagnostics"
  THEN CatchBlock(st, "diagnostics", Append(calls, Call("diagnostics", "-", "throw")))
  ELSE StuckTracking(st, p, fail, Append(calls, Call("diagnostics", "-", "ok")))

\* One pass through the body of while (retryCount < MAX_RETRIES) { try {...} catch {...} }
LoopBody(st, p, fail) ==
  LET pass == PassOn[p][fail] IN
  IF pass.threw # "none" THEN CatchBlock(st, pass.threw, pass.calls)
  ELSE IF pass.stepSolved THEN ProgressBranch(st, fail, pass.calls)
  ELSE NoMatchBranch(st, p, fail, pass.calls)

\* while (retryCount < MAX_RETRIES)
LoopCondition(rc) == rc < MAX_RETRIES

(* ------------------------------------------------------------------ *)
(* State                                                                *)
(* ------------------------------------------------------------------ *)

VARIABLES
  retryCount,        \* let retryCount = 0
  lastUrl,           \* let lastUrl = ''
  stuckCount,        \* let stuckCount = 0
  screenshotCounter, \* let screenshotCounter = 0
  status,            \* how the main loop stands: RUNNING, or the way it was left
  page,              \* the document the page driver currently shows (index in Pages)
  iterations,        \* history: loop bodies entered so far
  outcome,           \* history: how the latest iteration ended
  calls,             \* history: the awaited calls of the latest iteration, in order
  prevUrl,           \* history: the location of the page in the latest iteration
  noMatchRun         \* history: the latest iterations that matched nothing at one location

VARIABLES
  pc,                \* where main() stands: the call it awaits next, or how it ended
  browser,           \* the browser process: none, open or closed
  closeCalls,        \* how many times browser.close() was called
  exitCode,          \* the status passed to process.exit: << 1 >>, or << >> if it was not called
  failure            \* the failure travelling out of main(), "none" if there is none

loopVars ==
  << retryCount, lastUrl, stuckCount, screenshotCounter, status, page,
     iterations, outcome, calls, prevUrl, noMatchRun >>

VARIABLES
  storeFile,         \* the file at SEEN_VALUES_FILE: absent, unreadable, or its text
  seenValues,        \* the Set of seen values held in memory, in insertion order
  storeOp,           \* history: the latest operation on the store
  writes,            \* history: how many times the store file was written
  requests,          \* the array monitorNetwork pushes the captured requests to
  listening,         \* the 'request' listener of monitorNetwork is attached to the page
  returned,          \* history: << the array's content when monitorNetwork returned it >>
  askedEndpoint,     \* the endpoint extractFieldFromRequests is called with
  askedField,        \* the field extractFieldFromRequests is called with
  extracted,         \* the value extractFieldFromRequests returned
  gatePc,            \* where the feature-flag gate stands
  passes             \* history: classifier passes begun after the gate

VARIABLES
  solvePage,         \* the document an archetype's functions are run on
  failingEl,         \* the element of it whose click or fill rejects (0: none)
  ran,               \* the archetype whose functions were run, and how
  detected,          \* what its detect returned
  acts,              \* the clicks and fills its solve issued, in order
  solveThrew         \* its solve ended by throwing

procVars == << pc, browser, closeCalls, exitCode, failure >>

storeVars == << storeFile, seenValues, storeOp, writes >>

gateVars == << requests, listening, returned, askedEndpoint, askedField, extracted, gatePc, passes >>

\* The variables the main loop never touches
solveVars == << solvePage, failingEl, ran, detected, acts, solveThrew >>

auxVars == << procVars, storeVars, gateVars, solveVars >>

vars == << loopVars, auxVars >>

\* main() has launched the browser and opened the start page: it stands at
\* the head of the main loop
InsideTry ==
  /\ pc = "loop"
  /\ browser = "open"
  /\ closeCalls = 0
  /\ exitCode = <<>>
  /\ failure = "none"

\* null, and the other JavaScript values: t is the type, v the content
Null == [t |-> "null", v |-> << >>]

\* No file at SEEN_VALUES_FILE
NoFile == [kind |-> "absent", text |-> << >>]

\* script.js never calls the store or the gate functions: both stay idle
GateOff ==
  /\ storeFile = NoFile
  /\ seenValues = << >>
  /\ storeOp = "none"
  /\ writes = 0
  /\ requests = << >>
  /\ listening = FALSE
  /\ returned = << >>
  /\ askedEndpoint = << >>
  /\ askedField = << >>
  /\ extracted = Null
  /\ gatePc = "off"
  /\ passes = 0

\* by: "direct" when detect and solve were called as such, "pass" when a
\* classifier pass chose the archetype
NotRun == [by |-> "none", name |-> "none"]

\* No archetype is run apart from the main loop
SolveOff ==
  /\ solvePage = [url |-> << >>, text |-> << >>, elems |-> << >>]
  /\ failingEl = 0
  /\ ran = NotRun
  /\ detected = FALSE
  /\ acts = << >>
  /\ solveThrew = FALSE

AuxInit == InsideTry /\ GateOff /\ SolveOff

NoOutcome == [kind |-> "none", at |-> "none"]

NoRun == [len |-> 0, base |-> 0, changed |-> FALSE, vocab |-> FALSE]

\* The values main() gives the loop variables, on any first page
Init ==
  /\ retryCount = 0
  /\ lastUrl = <<>>
  /\ stuckCount = 0
  /\ screenshotCounter = 0
  /\ status = "RUNNING"
  /\ page \in PageIds
  /\ iterations = 0
  /\ outcome = NoOutcome
  /\ calls = <<>>
  /\ prevUrl = <<>>
  /\ noMatchRun = NoRun
  /\ AuxInit

\* The iterations up to this one that matched nothing and saw one location:
\* len of them, the first of which found stuckCount at base and saw a
\* location different from lastUrl iff changed; vocab iff any of them had
\* completion vocabulary on the page
RunAfter(kind, p) ==
  IF kind \in {"nomatch", "complete", "stuck"}
  THEN IF noMatchRun.len > 0 /\ prevUrl = Url(Pages[p])
       THEN [noMatchRun EXCEPT !.len = @ + 1, !.vocab = @ \/ IndicatorsOn[p]]
       ELSE [len |-> 1,
             base |-> IF Url(Pages[p]) # lastUrl THEN 0 ELSE stuckCount,
             changed |-> Url(Pages[p]) # lastUrl,
             vocab |-> IndicatorsOn[p]]
  ELSE NoRun

\* One iteration of the main loop, from the loop test to the continue, the
\* break or the end of the catch
Iteration ==
  /\ status = "RUNNING"
  /\ LoopCondition(retryCount)
  /\ \E fail \in FailPointsOn[page] :
       LET r == LoopBody([retryCount |-> retryCount, lastUrl |-> lastUrl,
                           stuckCount |-> stuckCount,
                           screenshotCounter |-> screenshotCounter,
                           status |-> status, outcome |-> NoOutcome, calls |-> <<>>],
                         page, fail)
       IN /\ r.screenshotCounter <= MaxShots
          /\ fail.op = "scan" => r.stuckCount <= MaxStuck
          /\ retryCount' = r.retryCount
          /\ lastUrl' = r.lastUrl
          /\ stuckCount' = r.stuckCount
          /\ screenshotCounter' = r.screenshotCounter
          /\ status' = r.status
          /\ iterations' = iterations + 1
          /\ outcome' = IF iterations < StallWindow THEN r.outcome ELSE NoOutcome
          /\ prevUrl' = IF iterations < StallWindow THEN Url(Pages[page]) ELSE <<>>
          /\ noMatchRun' = IF iterations < StallWindow
                           THEN RunAfter(r.outcome.kind, page) ELSE NoRun
          /\ calls' = IF iterations < PassWindow THEN r.calls ELSE <<>>
  /\ UNCHANGED page
  /\ UNCHANGED auxVars

\* The loop test fails: if (retryCount >= MAX_RETRIES) the run is over
LoopExit ==
  /\ status = "RUNNING"
  /\ ~LoopCondition(retryCount)
  /\ status' = "ABORTED_CEILING"
  /\ UNCHANGED << retryCount, lastUrl, stuckCount, screenshotCounter, page,
                  iterations, outcome, calls, prevUrl, noMatchRun >>
  /\ UNCHANGED auxVars

\* Between two iterations the site shows another document (a click took
\* effect, a redirect, a late render)
Navigate ==
  /\ status = "RUNNING"
  /\ \E p \in PageIds \ {page} : page' = p
  /\ UNCHANGED << retryCount, lastUrl, stuckCount, screenshotCounter, status,
                  iterations, outcome, calls, prevUrl, noMatchRun >>
  /\ UNCHANGED auxVars

Next == Iteration \/ LoopExit \/ Navigate

Spec == Init /\ [][Next]_vars

COMPLETE == status = "COMPLETE"

ABORTED == status \in {"ABORTED_STUCK", "ABORTED_CEILING"}

(* ------------------------------------------------------------------ *)
(* main() around the loop: set-up, try / finally, main().catch          *)
(* ------------------------------------------------------------------ *)

\* An awaited call of main() that returns, then main() goes on at next
Returns(next) == pc' = next /\ failure' = failure

\* An awaited call of main() outside the try block that throws: main()'s
\* promise rejects with it
Escapes(what) == pc' = "rejected" /\ failure' = what

\* The loop variables do not exist before the try block
BeforeLoop ==
  /\ retryCount = 0
  /\ lastUrl = <<>>
  /\ stuckCount = 0
  /\ screenshotCounter = 0
  /\ status = "NOT_ENTERED"
  /\ page = 0
  /\ iterations = 0
  /\ outcome = NoOutcome
  /\ calls = <<>>
  /\ prevUrl = <<>>
  /\ noMatchRun = NoRun

\* The process starts: main() is called
MainInit ==
  /\ BeforeLoop
  /\ pc = "launch"
  /\ browser = "none"
  /\ closeCalls = 0
  /\ exitCode = <<>>
  /\ failure = "none"
  /\ GateOff
  /\ SolveOff

\* const browser = await chromium.launch({ headless: true })
Launch ==
  /\ pc = "launch"
  /\ \/ Returns("newContext") /\ browser' = "open"
     \/ Escapes("launch") /\ browser' = browser
  /\ UNCHANGED << loopVars, closeCalls, exitCode, storeVars, gateVars, solveVars >>

\* const context = await browser.newContext()
NewContext ==
  /\ pc = "newContext"
  /\ Returns("newPage") \/ Escapes("newContext")
  /\ UNCHANGED << loopVars, browser, closeCalls, exitCode, storeVars, gateVars, solveVars >>

\* const page = await context.newPage()
NewPage ==
  /\ pc = "newPage"
  /\ Returns("mkdir") \/ Escapes("newPage")
  /\ UNCHANGED << loopVars, browser, closeCalls, exitCode, storeVars, gateVars, solveVars >>

\* if (!fs.existsSync(screenshotsDir)) fs.mkdirSync(screenshotsDir); page.on(...)
MakeScreenshotsDir ==
  /\ pc = "mkdir"
  /\ Returns("goto") \/ Escapes("mkdir")
  /\ UNCHANGED << loopVars, browser, closeCalls, exitCode, storeVars, gateVars, solveVars >>

\* try { await page.goto(START_URL); ... the loop variables are declared
Goto ==
  /\ pc = "goto"
  /\ \/ /\ Returns("loop")
        /\ status' = "RUNNING"
        /\ page' \in PageIds
     \/ /\ pc' = "finally"
        /\ failure' = "goto"
        /\ UNCHANGED << status, page >>
  /\ UNCHANGED << retryCount, lastUrl, stuckCount, screenshotCounter,
                  iterations, outcome, calls, prevUrl, noMatchRun >>
  /\ UNCHANGED << browser, closeCalls, exitCode, storeVars, gateVars, solveVars >>

\* The loop was left by a break or by its test: control reaches the finally
LeaveTry ==
  /\ pc = "loop"
  /\ status \notin {"RUNNING", "NOT_ENTERED"}
  /\ pc' = "finally"
  /\ UNCHANGED << loopVars, browser, closeCalls, exitCode, failure, storeVars, gateVars, solveVars >>

\* The finally block does not close the browser
Finally_NoClose ==
  /\ pc = "finally"
  /\ pc' = IF failure = "none" THEN "returned" ELSE "rejected"
  /\ UNCHANGED << loopVars, browser, closeCalls, exitCode, failure, storeVars, gateVars, solveVars >>

\* finally { await browser.close(); }  then main() returns, or the failure
\* that brought control here goes on; a failing close replaces it
Finally ==
  /\ pc = "finally"
  /\ closeCalls' = closeCalls + 1
  /\ \/ /\ browser' = "closed"
        /\ pc' = IF failure = "none" THEN "returned" ELSE "rejected"
        /\ failure' = failure
     \/ /\ browser' = browser
        /\ Escapes("close")
  /\ UNCHANGED << loopVars, exitCode, storeVars, gateVars, solveVars >>

\* main().catch(err => { console.error('Error:', err); process.exit(1); })
CatchMain ==
  /\ pc = "rejected"
  /\ exitCode' = << 1 >>
  /\ pc' = "exited"
  /\ UNCHANGED << loopVars, browser, closeCalls, failure, storeVars, gateVars, solveVars >>

MainNext ==
  \/ Launch \/ NewContext \/ NewPage \/ MakeScreenshotsDir \/ Goto
  \/ Iteration \/ LoopExit \/ Navigate
  \/ LeaveTry \/ Finally \/ CatchMain

\* The whole process, from the call of main() to its end
SpecMain == MainInit /\ [][MainNext]_vars

(* ------------------------------------------------------------------ *)
(* JSON text and JavaScript values                                      *)
(* ------------------------------------------------------------------ *)

Str(chars) == [t |-> "str", v |-> chars]

Num(digits) == [t |-> "num", v |-> digits]

Bool(literal) == [t |-> "bool", v |-> literal]

Arr(items) == [t |-> "arr", v |-> items]

\* members: a sequence of [k |-> key, val |-> value]
Obj(members) == [t |-> "obj", v |-> members]

Ws == {" ", "\n"}

Digits == {"0", "1", "2", "3", "4", "5", "6", "7", "8", "9"}

ParseFail == [ok |-> FALSE, val |-> Null, next |-> 0]

Parsed(val, next) == [ok |-> TRUE, val |-> val, next |-> next]

\* The first position from i on that holds no white space
SkipWs(s, i) ==
  LET F[k \in i..(Len(s) + 1)] == IF k <= Len(s) /\ s[k] \in Ws THEN F[k + 1] ELSE k
  IN F[i]

\* The character an escape sequence \c stands for (the escapes this model reads)
Unescaped(c) == IF c = "n" THEN "\n" ELSE c

\* A JSON string literal whose opening quote is at i: its characters
ParseString(s, i) ==
  LET Rest[k \in (i + 1)..(Len(s) + 2)] ==
        IF k > Len(s) THEN ParseFail
        ELSE IF s[k] = "\"" THEN Parsed(<< >>, k + 1)
        ELSE IF s[k] = "\n" THEN ParseFail
        ELSE IF s[k] = "\\"
             THEN IF k < Len(s) /\ s[k + 1] \in {"\"", "\\", "n"}
                  THEN LET r == Rest[k + 2]
                       IN IF r.ok THEN Parsed(<< Unescaped(s[k + 1]) >> \o r.val, r.next)
                          ELSE ParseFail
                  ELSE ParseFail
             ELSE LET r == Rest[k + 1]
                  IN IF r.ok THEN Parsed(<< s[k] >> \o r.val, r.next) ELSE ParseFail
  IN Rest[i + 1]

\* Where the number that starts at i ends (no sign, fraction or exponent)
NumberEnd(s, i) ==
  LET F[k \in i..(Len(s) + 1)] == IF k <= Len(s) /\ s[k] \in Digits THEN F[k + 1] ELSE k
  IN IF s[i] = "0" THEN i + 1 ELSE F[i]

StartsWith(s, i, word) ==
  i + Len(word) - 1 <= Len(s) /\ SubSeq(s, i, i + Len(word) - 1) = word

RECURSIVE ParseValue(_, _), ParseItems(_, _, _), ParseMembers(_, _, _)

\* The JSON value that starts at or after i0
ParseValue(s, i0) ==
  LET i == SkipWs(s, i0) IN
  IF i > Len(s) THEN ParseFail
  ELSE IF s[i] = "\""
       THEN LET r == ParseString(s, i)
            IN IF r.ok THEN Parsed(Str(r.val), r.next) ELSE ParseFail
  ELSE IF s[i] = "["
       THEN LET j == SkipWs(s, i + 1)
            IN IF j <= Len(s) /\ s[j] = "]" THEN Parsed(Arr(<< >>), j + 1)
               ELSE ParseItems(s, i + 1, << >>)
  ELSE IF s[i] = "{"
       THEN LET j == SkipWs(s, i + 1)
            IN IF j <= Len(s) /\ s[j] = "}" THEN Parsed(Obj(<< >>), j + 1)
               ELSE ParseMembers(s, i + 1, << >>)
  ELSE IF s[i] \in Digits
       THEN Parsed(Num(SubSeq(s, i, NumberEnd(s, i) - 1)), NumberEnd(s, i))
  ELSE IF StartsWith(s, i, <<"n", "u", "l", "l">>) THEN Parsed(Null, i + 4)
  ELSE IF StartsWith(s, i, <<"t", "r", "u", "e">>) THEN Parsed(Bool(<<"t", "r", "u", "e">>), i + 4)
  ELSE IF StartsWith(s, i, <<"f", "a", "l", "s", "e">>) THEN Parsed(Bool(<<"f", "a", "l", "s", "e">>), i + 5)
  ELSE ParseFail

\* The elements of an array from i on, after the elements in acc
ParseItems(s, i, acc) ==
  LET r == ParseValue(s, i) IN
  IF ~r.ok THEN ParseFail
  ELSE LET j == SkipWs(s, r.next)
       IN IF j > Len(s) THEN ParseFail
          ELSE IF s[j] = "," THEN ParseItems(s, j + 1, Append(acc, r.val))
          ELSE IF s[j] = "]" THEN Parsed(Arr(Append(acc, r.val)), j + 1)
          ELSE ParseFail

\* The members of an object from i on, after the members in acc
ParseMembers(s, i, acc) ==
  LET k == SkipWs(s, i) IN
  IF k > Len(s) \/ s[k] # "\"" THEN ParseFail
  ELSE LET key == ParseString(s, k) IN
       IF ~key.ok THEN ParseFail
       ELSE LET c == SkipWs(s, key.next) IN
            IF c > Len(s) \/ s[c] # ":" THEN ParseFail
            ELSE LET r == ParseValue(s, c + 1) IN
                 IF ~r.ok THEN ParseFail
                 ELSE LET j == SkipWs(s, r.next)
                          member == [k |-> key.val, val |-> r.val]
                      IN IF j > Len(s) THEN ParseFail
                         ELSE IF s[j] = "," THEN ParseMembers(s, j + 1, Append(acc, member))
                         ELSE IF s[j] = "}" THEN Parsed(Obj(Append(acc, member)), j + 1)
                         ELSE ParseFail

\* JSON.parse(text): the value, or a SyntaxError (ok is FALSE)
JSON_parse(text) ==
  LET r == ParseValue(text, 1)
  IN IF r.ok /\ SkipWs(text, r.next) > Len(text)
     THEN [ok |-> TRUE, val |-> r.val]
     ELSE [ok |-> FALSE, val |-> Null]

\* Quotes and backslashes are written as they are
Escape_Raw(chars) == chars

\* The characters of a string as JSON.stringify writes them between quotes
Escape(chars) ==
  LET E[k \in 0..Len(chars)] ==
        IF k = 0 THEN << >>
        ELSE E[k - 1] \o (IF chars[k] \in {"\"", "\\"} THEN << "\\", chars[k] >>
                          ELSE IF chars[k] = "\n" THEN << "\\", "n" >>
                          ELSE << chars[k] >>)
  IN E[Len(chars)]

Quote(chars) == << "\"" >> \o Escape(chars) \o << "\"" >>

Indent(level) == [k \in 1..(2 * level) |-> " "]

RECURSIVE Stringify(_, _)

\* JSON.stringify(val, null, 2), for a value nested level deep
Stringify(val, level) ==
  CASE val.t = "null" -> <<"n", "u", "l", "l">>
    [] val.t = "bool" -> val.v
    [] val.t = "num"  -> val.v
    [] val.t = "str"  -> Quote(val.v)
    [] val.t = "arr"  ->
         LET Items[k \in 0..Len(val.v)] ==
               IF k = 0 THEN << >>
               ELSE Items[k - 1] \o (IF k > 1 THEN << "," >> ELSE << >>)
                    \o << "\n" >> \o Indent(level + 1) \o Stringify(val.v[k], level + 1)
         IN IF Len(val.v) = 0 THEN <<"[", "]">>
            ELSE << "[" >> \o Items[Len(val.v)] \o << "\n" >> \o Indent(level) \o << "]" >>
    [] val.t = "obj"  ->
         LET Members[k \in 0..Len(val.v)] ==
               IF k = 0 THEN << >>
               ELSE Members[k - 1] \o (IF k > 1 THEN << "," >> ELSE << >>)
                    \o << "\n" >> \o Indent(level + 1) \o Quote(val.v[k].k)
                    \o << ":", " " >> \o Stringify(val.v[k].val, level + 1)
         IN IF Len(val.v) = 0 THEN <<"{", "}">>
            ELSE << "{" >> \o Members[Len(val.v)] \o << "\n" >> \o Indent(level) \o << "}" >>

\* Set.prototype.has: strings, numbers, booleans and null are compared by
\* value, arrays and objects by identity (those parsed apart are never the same)
SetHas(set, x) ==
  /\ x.t \notin {"arr", "obj"}
  /\ \E i \in 1..Len(set) : set[i].t = x.t /\ set[i].v = x.v

\* Set.prototype.add
SetAdd(set, x) == IF SetHas(set, x) THEN set ELSE Append(set, x)

\* What iterating a value yields: the elements of an array, the characters
\* of a string; any other value is not iterable
Iterate(val) ==
  CASE val.t = "arr" -> [ok |-> TRUE, items |-> val.v]
    [] val.t = "str" -> [ok |-> TRUE, items |-> [k \in 1..Len(val.v) |-> Str(<< val.v[k] >>)]]
    [] OTHER -> [ok |-> FALSE, items |-> << >>]

\* new Set(val): empty for null, the distinct values val iterates over, or a
\* TypeError (ok is FALSE)
NewSet(val) ==
  IF val.t = "null" THEN [ok |-> TRUE, set |-> << >>]
  ELSE LET it == Iterate(val)
           Upto[k \in 0..Len(it.items)] ==
             IF k = 0 THEN << >> ELSE SetAdd(Upto[k - 1], it.items[k])
       IN IF it.ok THEN [ok |-> TRUE, set |-> Upto[Len(it.items)]]
          ELSE [ok |-> FALSE, set |-> << >>]

(* ------------------------------------------------------------------ *)
(* The seen-value store                                                 *)
(* ------------------------------------------------------------------ *)

File(text) == [kind |-> "file", text |-> text]

\* A file that exists and cannot be read
Unreadable == [kind |-> "unreadable", text |-> << >>]

\* loadSeenValues reads whatever is in the file
loadSeenValues_Empty(file) == << >>

\* try { data = fs.readFileSync(...); return new Set(JSON.parse(data)) }
\* catch (e) { return new Set() }
loadSeenValues(file) ==
  IF file.kind # "file" THEN << >>
  ELSE LET parsed == JSON_parse(file.text) IN
       IF ~parsed.ok THEN << >>
       ELSE LET made == NewSet(parsed.val)
            IN IF made.ok THEN made.set ELSE << >>

\* fs.writeFileSync(SEEN_VALUES_FILE, JSON.stringify(Array.from(set), null, 2)):
\* the file after a write that succeeds
saveSeenValues(set, file) == File(Stringify(Arr(set), 0))

\* The values a run may add to the set
Values ==
  { Str(<<"a", "b", "c", "1", "2", "3">>), Str(<<"x", "y", "z", "7", "8", "9">>), Str(<<"a", "\"", "b", "\\", "c">>), Str(<< >>) }

\* Files found at SEEN_VALUES_FILE when a run starts
StoreFiles ==
  { NoFile, Unreadable,
    File(<< >>), File(<<"[">>), File(<<"[", "]">>),
    File(<<"[", "\"", "a", "b", "c", "1", "2", "3", "\"", "]">>), File(<<"[", "\"", "a", "b", "c", "1", "2", "3", "\"", ",", " ", "\"", "x", "y", "z", "7", "8", "9", "\"", "]">>),
    File(<<"[", "\"", "a", "b", "c", "1", "2", "3", "\"", ",", "\"", "a", "b", "c", "1", "2", "3", "\"", "]">>),
    File(<<"7">>), File(<<"{", "}">>), File(<<"{", "\"", "a", "\"", ":", " ", "1", "}">>), File(<<"n", "u", "l", "l">>), File(<<"t", "r", "u", "e">>),
    File(<<"\"", "a", "b", "c", "\"">>), File(<<"\"", "\"">>), File(<<"[", "1", ",", " ", "n", "u", "l", "l", "]">>) }

\* How many values the set may hold
MaxSeen == 2

\* How many times the store file may be written
MaxWrites == 2

\* The store functions applied in any order, on any file
StoreInit ==
  /\ BeforeLoop
  /\ InsideTry
  /\ SolveOff
  /\ storeFile \in StoreFiles
  /\ seenValues = << >>
  /\ storeOp = "none"
  /\ writes = 0
  /\ requests = << >>
  /\ listening = FALSE
  /\ returned = << >>
  /\ askedEndpoint = << >>
  /\ askedField = << >>
  /\ extracted = Null
  /\ gatePc = "off"
  /\ passes = 0

\* seen = await loadSeenValues()
StoreLoad ==
  /\ seenValues' = loadSeenValues(storeFile)
  /\ storeOp' = "load"
  /\ UNCHANGED << loopVars, procVars, solveVars, gateVars, storeFile, writes >>

\* seen.add(value)
StoreAdd ==
  /\ \E x \in Values :
       /\ Len(SetAdd(seenValues, x)) <= MaxSeen
       /\ seenValues' = SetAdd(seenValues, x)
  /\ storeOp' = "add"
  /\ UNCHANGED << loopVars, procVars, solveVars, gateVars, storeFile, writes >>

\* saveSeenValues(seen): the file is written, or writeFileSync throws
StoreSave ==
  /\ \/ /\ writes < MaxWrites
        /\ storeFile' = saveSeenValues(seenValues, storeFile)
        /\ storeOp' = "save"
        /\ writes' = writes + 1
     \/ /\ storeFile' = storeFile
        /\ storeOp' = "save failed"
        /\ writes' = writes
  /\ UNCHANGED << loopVars, procVars, solveVars, gateVars, seenValues >>

StoreNext == StoreLoad \/ StoreAdd \/ StoreSave

SpecStore == StoreInit /\ [][StoreNext]_vars

(* ------------------------------------------------------------------ *)
(* The feature-flag gate                                                *)
(* ------------------------------------------------------------------ *)

API_ENDPOINT == <<"w", "e", "l", "l", "f", "u", "n", "n", "e", "l", "-", "w", "e", "b", "-", "a", "p", "i", ".", "a", "s", "q", "q", ".", "i", "o", "/", "g", "e", "t", "-", "d", "e", "f", "a", "u", "l", "t", "-", "c", "o", "n", "f", "i", "g", "/">>

TARGET_FIELD == <<"s", "o", "m", "e", "_", "f", "i", "e", "l", "d">>

\* A captured request: req.url() and req.postData(), which is null (<< >>)
\* or the body text (<< text >>)
Request(url, postData) == [url |-> url, postData |-> postData]

ConfigUrl == <<"h", "t", "t", "p", "s", ":", "/", "/", "w", "e", "l", "l", "f", "u", "n", "n", "e", "l", "-", "w", "e", "b", "-", "a", "p", "i", ".", "a", "s", "q", "q", ".", "i", "o", "/", "g", "e", "t", "-", "d", "e", "f", "a", "u", "l", "t", "-", "c", "o", "n", "f", "i", "g", "/">>

OtherUrl == <<"h", "t", "t", "p", "s", ":", "/", "/", "p", "l", "a", "n", ".", "y", "o", "g", "a", "-", "g", "o", ".", "i", "o", "/", "a", "p", "i", "/", "e", "v", "e", "n", "t", "s">>

\* The requests a page may send during the observation window
RequestKinds ==
  { Request(ConfigUrl, << <<"{", "\"", "s", "o", "m", "e", "_", "f", "i", "e", "l", "d", "\"", ":", " ", "\"", "a", "b", "c", "1", "2", "3", "\"", "}">> >>),
    Request(ConfigUrl, << <<"{", "\"", "o", "t", "h", "e", "r", "\"", ":", " ", "1", ",", " ", "\"", "s", "o", "m", "e", "_", "f", "i", "e", "l", "d", "\"", ":", " ", "\"", "x", "y", "z", "7", "8", "9", "\"", "}">> >>),
    Request(OtherUrl,  << <<"{", "\"", "s", "o", "m", "e", "_", "f", "i", "e", "l", "d", "\"", ":", " ", "\"", "x", "y", "z", "7", "8", "9", "\"", "}">> >>),
    Request(ConfigUrl, << >>),
    Request(ConfigUrl, << <<"{", "\"", "s", "o", "m", "e", "_", "f", "i", "e", "l", "d", "\"", ":", " ">> >>),
    Request(ConfigUrl, << <<"{", "\"", "o", "t", "h", "e", "r", "\"", ":", " ", "\"", "a", "b", "c", "1", "2", "3", "\"", "}">> >>),
    Request(ConfigUrl, << <<"{", "\"", "s", "o", "m", "e", "_", "f", "i", "e", "l", "d", "\"", ":", " ", "n", "u", "l", "l", "}">> >>),
    Request(ConfigUrl, << <<"\"", "a", "b", "c", "\"">> >>),
    Request(ConfigUrl, << <<"[", "7", "]">> >>) }

\* How many requests the observation window may capture
MaxRequests == 2

Traffic == UNION { [1..n -> RequestKinds] : n \in 0..MaxRequests }

\* The value is truthy in an if or before &&
IsTruthy(val) ==
  CASE val.t = "null" -> FALSE
    [] val.t = "bool" -> val.v = <<"t", "r", "u", "e">>
    [] val.t = "num"  -> val.v # << "0" >>
    [] val.t = "str"  -> val.v # << >>
    [] OTHER -> TRUE

\* The decimal digits of a length below 100
Decimal(n) ==
  LET Digit(d) == CHOOSE c \in Digits : \E k \in 1..10 :
                    /\ <<"0", "1", "2", "3", "4", "5", "6", "7", "8", "9">>[k] = c
                    /\ k - 1 = d
  IN IF n < 10 THEN << Digit(n) >> ELSE << Digit(n \div 10), Digit(n % 10) >>

\* The position a property name denotes in an array or a string of fewer
\* than ten items: << position >>, or << >> when the name is not an index
IndexOf(name) ==
  IF Len(name) = 1 /\ name[1] \in Digits
  THEN << CHOOSE k \in 1..10 : <<"0", "1", "2", "3", "4", "5", "6", "7", "8", "9">>[k] = name[1] >>
  ELSE << >>

\* Object.prototype.hasOwnProperty.call(val, field): the members of an
\* object; the indices and "length" of an array, and of a string (which is
\* boxed); a number or a boolean has no own property
HasOwnProperty(val, field) ==
  CASE val.t = "obj" -> \E i \in 1..Len(val.v) : val.v[i].k = field
    [] val.t \in {"arr", "str"} ->
         \/ field = <<"l", "e", "n", "g", "t", "h">>
         \/ IndexOf(field) # << >> /\ IndexOf(field)[1] <= Len(val.v)
    [] OTHER -> FALSE

\* val[field] for an own property: of an object, the member written last
\* under that key
GetProperty(val, field) ==
  CASE val.t = "obj" ->
         LET last == CHOOSE i \in 1..Len(val.v) :
                       /\ val.v[i].k = field
                       /\ \A j \in (i + 1)..Len(val.v) : val.v[j].k # field
         IN val.v[last].val
    [] val.t = "arr" ->
         IF field = <<"l", "e", "n", "g", "t", "h">> THEN Num(Decimal(Len(val.v)))
         ELSE val.v[IndexOf(field)[1]]
    [] val.t = "str" ->
         IF field = <<"l", "e", "n", "g", "t", "h">> THEN Num(Decimal(Len(val.v)))
         ELSE Str(<< val.v[IndexOf(field)[1]] >>)
    [] OTHER -> Null

\* for (const req of requests) { if (req.url().includes(endpoint)) { try {...}
\* catch (e) {} } } return null
extractFieldFromRequests(reqs, endpoint, field) ==
  LET From[i \in 1..(Len(reqs) + 1)] ==
        IF i > Len(reqs) THEN Null
        ELSE IF /\ Includes(reqs[i].url, endpoint)
                /\ reqs[i].postData # << >>
                /\ reqs[i].postData[1] # << >>
             THEN LET payload == JSON_parse(reqs[i].postData[1])
                  IN IF /\ payload.ok
                        /\ IsTruthy(payload.val)
                        /\ HasOwnProperty(payload.val, field)
                     THEN GetProperty(payload.val, field)
                     ELSE From[i + 1]
             ELSE From[i + 1]
  IN From[1]

\* The endpoint fragments and the field names the function is called with
Endpoints == { API_ENDPOINT, <<"/", "a", "p", "i", "/">> }

Fields == { TARGET_FIELD, <<"o", "t", "h", "e", "r">>, <<"l", "e", "n", "g", "t", "h">>, <<"0">> }

\* extractFieldFromRequests is about to be called on any captured requests
ExtractInit ==
  /\ BeforeLoop
  /\ InsideTry
  /\ SolveOff
  /\ storeFile = NoFile
  /\ seenValues = << >>
  /\ storeOp = "none"
  /\ writes = 0
  /\ requests \in Traffic
  /\ listening = FALSE
  /\ returned = << >>
  /\ askedEndpoint \in Endpoints
  /\ askedField \in Fields
  /\ extracted = Null
  /\ gatePc = "call"
  /\ passes = 0

\* await extractFieldFromRequests(requests, endpoint, field)
ExtractCall ==
  /\ gatePc = "call"
  /\ extracted' = extractFieldFromRequests(requests, askedEndpoint, askedField)
  /\ gatePc' = "called"
  /\ UNCHANGED << loopVars, procVars, solveVars, storeVars, requests, listening,
                  returned, askedEndpoint, askedField, passes >>

SpecExtract == ExtractInit /\ [][ExtractCall]_vars

\* How many classifier passes are followed after the gate
MaxPasses == 2

\* A run of the variant with the gate starts, on any store file
GateInit ==
  /\ BeforeLoop
  /\ InsideTry
  /\ SolveOff
  /\ storeFile \in StoreFiles
  /\ seenValues = << >>
  /\ storeOp = "none"
  /\ writes = 0
  /\ requests = << >>
  /\ listening = FALSE
  /\ returned = << >>
  /\ askedEndpoint = API_ENDPOINT
  /\ askedField = TARGET_FIELD
  /\ extracted = Null
  /\ gatePc = "load"
  /\ passes = 0

\* The store is loaded at process start
GateLoad ==
  /\ gatePc = "load"
  /\ seenValues' = loadSeenValues(storeFile)
  /\ storeOp' = "load"
  /\ gatePc' = "monitor"
  /\ UNCHANGED << loopVars, procVars, solveVars, storeFile, writes, requests,
                  listening, returned, askedEndpoint, askedField, extracted, passes >>

\* monitorNetwork up to its await: const requests = []; page.on('request',
\* ...); the main flow is then suspended on page.waitForTimeout(durationMs)
MonitorStart ==
  /\ gatePc = "monitor"
  /\ requests' = << >>
  /\ listening' = TRUE
  /\ gatePc' = "waiting"
  /\ UNCHANGED << loopVars, procVars, solveVars, storeVars, returned, askedEndpoint,
                  askedField, extracted, passes >>

\* The page emits a 'request' event and the listener runs:
\* (request) => { requests.push(request) }. The listener is never removed,
\* and the array it pushes to is the one monitorNetwork returns
OnRequest ==
  /\ listening
  /\ Len(requests) < MaxRequests
  /\ \E request \in RequestKinds : requests' = Append(requests, request)
  /\ UNCHANGED << loopVars, procVars, solveVars, storeVars, listening, returned,
                  askedEndpoint, askedField, extracted, gatePc, passes >>

\* The timed wait is over: return requests
MonitorReturn ==
  /\ gatePc = "waiting"
  /\ returned' = << requests >>
  /\ gatePc' = "extract"
  /\ UNCHANGED << loopVars, procVars, solveVars, storeVars, requests, listening,
                  askedEndpoint, askedField, extracted, passes >>

\* value = await extractFieldFromRequests(requests, API_ENDPOINT, TARGET_FIELD)
GateExtract ==
  /\ gatePc = "extract"
  /\ extracted' = extractFieldFromRequests(requests, API_ENDPOINT, TARGET_FIELD)
  /\ gatePc' = "decide"
  /\ UNCHANGED << loopVars, procVars, solveVars, storeVars, requests, listening,
                  returned, askedEndpoint, askedField, passes >>

\* A value that is present and not a member is inserted and the set is
\* saved, then the loop may run; otherwise the run exits
GateDecide ==
  /\ gatePc = "decide"
  /\ IF extracted # Null /\ ~SetHas(seenValues, extracted)
     THEN /\ seenValues' = SetAdd(seenValues, extracted)
          /\ \/ /\ storeFile' = saveSeenValues(seenValues', storeFile)
                /\ storeOp' = "save"
                /\ writes' = writes + 1
                /\ gatePc' = "loop"
             \/ /\ storeFile' = storeFile
                /\ storeOp' = "save failed"
                /\ writes' = writes
                /\ gatePc' = "failed"
     ELSE /\ gatePc' = "exit"
          /\ UNCHANGED storeVars
  /\ UNCHANGED << loopVars, procVars, solveVars, requests, listening, returned,
                  askedEndpoint, askedField, extracted, passes >>

\* A classifier pass of the main loop begins
GatePass ==
  /\ gatePc = "loop"
  /\ passes < MaxPasses
  /\ passes' = passes + 1
  /\ UNCHANGED << loopVars, procVars, solveVars, storeVars, requests, listening,
                  returned, askedEndpoint, askedField, extracted, gatePc >>

GateNext ==
  \/ GateLoad
  \/ MonitorStart
  \/ OnRequest
  \/ MonitorReturn
  \/ GateExtract
  \/ GateDecide
  \/ GatePass

SpecGate == GateInit /\ [][GateNext]_vars

(* ------------------------------------------------------------------ *)
(* An archetype's detect and solve on any small document                *)
(* ------------------------------------------------------------------ *)

\* The elements the documents are made of
ElemKinds ==
  { Button(Locator(<<"C", "T", "A", "B", "u", "t", "t", "o", "n">>), <<"C", "o", "n", "t", "i", "n", "u", "e">>, TRUE, TRUE),
    Button(Locator(<<"C", "T", "A", "B", "u", "t", "t", "o", "n">>), <<"C", "o", "n", "t", "i", "n", "u", "e">>, TRUE, FALSE),
    Button(Locator(<<"o", "b", "C", "T", "A", "B", "u", "t", "t", "o", "n">>), <<"N", "e", "x", "t">>, FALSE, TRUE),
    Button(Locator(<<"s", "k", "i", "p", "_", "b", "t", "n">>), <<"S", "k", "i", "p">>, TRUE, TRUE),
    Button(NoLocator, <<"S", "k", "i", "p">>, TRUE, TRUE),
    Button(Locator(<<"b", "a", "c", "k", "_", "s", "k", "i", "p">>), <<"S", "k", "i", "p">>, TRUE, TRUE),
    Button(NoLocator, <<"G", "e", "t", " ", "m", "y", " ", "p", "l", "a", "n">>, TRUE, TRUE),
    Button(Locator(<<"g", "e", "t", "_", "p", "l", "a", "n">>), <<"G", "e", "t", " ", "m", "y", " ", "p", "l", "a", "n">>, TRUE, TRUE),
    Button(Locator(<<"n", "a", "v", "_", "b", "a", "c", "k">>), <<"B", "a", "c", "k">>, TRUE, TRUE),
    Input(Locator(<<"m", "u", "l", "t", "i", "_", "s", "e", "l", "e", "c", "t", "_", "1">>), TRUE, TRUE),
    Input(Locator(<<"m", "u", "l", "t", "i", "_", "s", "e", "l", "e", "c", "t", "_", "2">>), FALSE, TRUE),
    Input(Locator(<<"m", "u", "l", "t", "i", "_", "s", "e", "l", "e", "c", "t", "_", "3">>), TRUE, FALSE),
    Input(NoLocator, TRUE, TRUE),
    Button(Locator(<<"o", "p", "t", "i", "o", "n", "_", "1">>), <<"Y", "e", "s">>, TRUE, TRUE),
    Button(Locator(<<"o", "p", "t", "i", "o", "n", "_", "s", "q", "u", "a", "r", "e", "_", "2">>), <<"N", "o">>, FALSE, TRUE),
    Button(Locator(<<"b", "a", "c", "k", "C", "T", "A", "B", "u", "t", "t", "o", "n">>), <<"P", "r", "e", "v", "i", "o", "u", "s">>, TRUE, TRUE) }

\* How many elements a document may have
MaxElems == 2

SolvePages ==
  { [url |-> u, text |-> << >>, elems |-> e] :
      u \in {UrlQuiz, UrlResult},
      e \in UNION { [1..n -> ElemKinds] : n \in 0..MaxElems } }

\* Any document, with at most one element whose click rejects
SolveInit ==
  /\ BeforeLoop
  /\ InsideTry
  /\ GateOff
  /\ solvePage \in SolvePages
  /\ failingEl \in 0..Len(solvePage.elems)
  /\ ran = NotRun
  /\ detected = FALSE
  /\ acts = << >>
  /\ solveThrew = FALSE

\* An archetype's detect, then its solve whatever detect returned
DetectAndSolve ==
  /\ ran = NotRun
  /\ \E name \in {stepTypes[i] : i \in 1..Len(stepTypes)} :
       /\ ran' = [by |-> "direct", name |-> name]
       /\ detected' = Detect(name, solvePage)
       /\ acts' = Solve(name, solvePage, failingEl).acts
       /\ solveThrew' = Solve(name, solvePage, failingEl).threw
  /\ UNCHANGED << loopVars, procVars, storeVars, gateVars, solvePage, failingEl >>

\* for (const stepType of stepTypes) { if (await stepType.detect()) {
\*   await stepType.solve(); stepSolved = true; break; } }
PassAndSolve ==
  /\ ran = NotRun
  /\ LET pass == ClassifierPass(solvePage, NoFailure)
         name == pass.calls[Len(pass.calls)].name
     IN IF pass.stepSolved
        THEN /\ ran' = [by |-> "pass", name |-> name]
             /\ detected' = TRUE
             /\ acts' = Solve(name, solvePage, failingEl).acts
             /\ solveThrew' = Solve(name, solvePage, failingEl).threw
        ELSE /\ ran' = [by |-> "pass", name |-> "no match"]
             /\ detected' = FALSE
             /\ acts' = << >>
             /\ solveThrew' = FALSE
  /\ UNCHANGED << loopVars, procVars, storeVars, gateVars, solvePage, failingEl >>

SolveNext == DetectAndSolve \/ PassAndSolve

SpecSolve == SolveInit /\ [][SolveNext]_vars

(* ------------------------------------------------------------------ *)
(* Properties of the main loop                                          *)
(* ------------------------------------------------------------------ *)

\* Positions of the solve calls in a call log
SolveCalls(log) == {i \in 1..Len(log) : log[i].op = "solve"}

\* The archetypes whose detect holds on page p
Matching(p) == {i \in 1..Len(stepTypes) : Detect(stepTypes[i], Pages[p])}

NoMatchKinds == {"nomatch", "complete", "stuck"}

\* C1: every iteration of the main loop either leaves the loop or has
\* incremented retryCount, so the loop body runs at most MAX_RETRIES times;
\* while the loop runs it can always take its next step, and it is left
\* only as COMPLETE or as ABORTED.
C1_LoopBounded ==
  /\ iterations <= MAX_RETRIES
  /\ status = "RUNNING" => iterations = retryCount /\ ENABLED (Iteration \/ LoopExit)
  /\ status # "RUNNING" => (COMPLETE \/ ABORTED) /\ iterations <= retryCount + 1

C1_Witness == status = "ABORTED_CEILING" /\ iterations = MAX_RETRIES

\* C2: in one iteration at most one solve is called, and once a solve has
\* been called no detect and no solve of the registry follows it.
C2_AtMostOneSolve ==
  /\ Cardinality(SolveCalls(calls)) <= 1
  /\ \A i \in SolveCalls(calls) : \A j \in (i + 1)..Len(calls) :
       calls[j].op \notin {"detect", "solve"}

C2_Witness ==
  /\ \E i \in 1..Len(calls) : calls[i] = Call("solve", "skip_button", "ok")
  /\ Detect("single_button", Pages[page])

\* The registration order the claim states
C3_Order ==
  << "skip_button", "multi_select_button", "email_input", "number_input",
     "single_button", "option", "single_option", "multi_option",
     "occasion_result_screen" >>

\* C3: the archetype solved in an iteration is the earliest in the stated
\* registration order whose detect holds on the page of that iteration; a
\* skip control next to a call-to-action button is solved by skip_button.
C3_RegistryOrder ==
  [][(iterations' # iterations /\ SolveCalls(calls') # {}) =>
       \A i \in SolveCalls(calls') :
         /\ \E k \in 1..Len(C3_Order) :
              /\ calls'[i].name = C3_Order[k]
              /\ Detect(C3_Order[k], Pages[page])
              /\ \A j \in 1..(k - 1) : ~Detect(C3_Order[j], Pages[page])
         /\ (skip_button_detect(Pages[page]) /\ single_button_detect(Pages[page]))
              => calls'[i].name = "skip_button"]_vars

C3_Witness ==
  /\ Cardinality(Matching(page)) >= 2
  /\ skip_button_detect(Pages[page])
  /\ single_button_detect(Pages[page])
  /\ SolveCalls(calls) # {}
  /\ \A i \in SolveCalls(calls) : calls[i].name = "skip_button"
  /\ \A i \in 1..Len(calls) : calls[i].name # "single_button"

\* C4 as stated: after N consecutive no-match iterations at one location
\* stuckCount equals N.
C4_Original == noMatchRun.len > 0 => stuckCount = noMatchRun.len

\* C4 (amended): after N consecutive no-match iterations at one location
\* stuckCount equals N - 1 when the first of them saw a location different
\* from lastUrl (always so at the start of a run, where lastUrl is ''), and
\* N plus the value stuckCount had before them otherwise; in particular a
\* no-match iteration that sees a location different from lastUrl sets
\* stuckCount to 0.
C4_StallCount ==
  noMatchRun.len > 0 =>
    stuckCount = IF noMatchRun.changed
                 THEN noMatchRun.len - 1
                 ELSE noMatchRun.base + noMatchRun.len

C4_Witness ==
  /\ iterations = 3
  /\ noMatchRun.len = 3
  /\ noMatchRun.changed
  /\ stuckCount = 2

\* C5 as stated: ten consecutive no-match iterations at one location without
\* completion vocabulary have ended the run as ABORTED.
C5_Original ==
  (noMatchRun.len >= 10 /\ ~noMatchRun.vocab) => status = "ABORTED_STUCK"

\* C5 (amended): consecutive no-match iterations at one location without
\* completion vocabulary never end the run as COMPLETE; the run ends as
\* ABORTED in the one that raises stuckCount above 10, which is the twelfth
\* at the latest.
C5_StuckAbort ==
  (noMatchRun.len > 0 /\ ~noMatchRun.vocab) =>
    /\ ~COMPLETE
    /\ noMatchRun.len <= 12
    /\ (noMatchRun.len = 12 \/ stuckCount > HighThreshold) <=> status = "ABORTED_STUCK"

C5_Witness ==
  /\ iterations = 12
  /\ noMatchRun.len = 12
  /\ ~noMatchRun.vocab
  /\ status = "ABORTED_STUCK"

\* C6 as stated: a no-match iteration that leaves stuckCount above 10 ends
\* the run as ABORTED, completion vocabulary or not.
C6_Original ==
  (outcome.kind \in NoMatchKinds /\ stuckCount > HighThreshold) =>
    status = "ABORTED_STUCK"

\* C6 (amended): a no-match iteration that leaves stuckCount above 10 ends
\* the run in that iteration: as COMPLETE when the page text holds
\* completion vocabulary, as ABORTED when it does not.
C6_HighThresholdExit ==
  (outcome.kind \in NoMatchKinds /\ stuckCount > HighThreshold) =>
    status = IF CompletionIndicators(Pages[page]) THEN "COMPLETE" ELSE "ABORTED_STUCK"

C6_Witness ==
  /\ outcome.kind = "complete"
  /\ stuckCount = HighThreshold + 1
  /\ COMPLETE

\* C7: the run ends as COMPLETE exactly in a no-match iteration whose
\* increment takes stuckCount above 5 and whose scan finds completion
\* vocabulary; retryCount is not incremented and no iteration follows.
C7_CompleteExactly ==
  [][/\ (status = "RUNNING" /\ status' = "COMPLETE") =>
          /\ stuckCount' = stuckCount + 1
          /\ stuckCount' > LowThreshold
          /\ Url(Pages[page]) = lastUrl
          /\ CompletionIndicators(Pages[page])
          /\ Matching(page) = {}
          /\ retryCount' = retryCount
     /\ (iterations' # iterations /\ outcome'.kind = "nomatch"
           /\ stuckCount' > LowThreshold) =>
          ~CompletionIndicators(Pages[page])
     /\ COMPLETE => iterations' = iterations]_vars

C7_Witness == COMPLETE /\ stuckCount = LowThreshold + 1

\* C8: an iteration in which an archetype matched and its solve and the
\* screenshot returned sets stuckCount to 0, adds 1 to retryCount and to
\* screenshotCounter, leaves lastUrl alone and makes no inter-iteration wait.
C8_ProgressStep ==
  [][(iterations' # iterations /\ outcome'.kind = "progress") =>
       /\ stuckCount' = 0
       /\ retryCount' = retryCount + 1
       /\ screenshotCounter' = screenshotCounter + 1
       /\ lastUrl' = lastUrl
       /\ status' = "RUNNING"
       /\ Matching(page) # {}
       /\ \A i \in 1..Len(calls') : calls'[i].op \notin {"wait", "diagnostics", "scan"}]_vars

C8_Witness ==
  /\ outcome.kind = "progress"
  /\ lastUrl # <<>>
  /\ stuckCount = 0
  /\ \E i \in 1..Len(calls) : calls[i] = Call("screenshot", "-", "ok")

\* C9: an iteration in which an awaited call rejects leaves the run going,
\* adds exactly 1 to retryCount, and leaves stuckCount and lastUrl as they
\* stood when the call rejected.
C9_ExceptionIsRetry ==
  [][(iterations' # iterations /\ outcome'.kind = "exception") =>
       /\ status' = "RUNNING"
       /\ retryCount' = retryCount + 1
       /\ outcome'.at \in {"detect", "solve", "diagnostics"} =>
            /\ stuckCount' = stuckCount
            /\ lastUrl' = lastUrl
            /\ screenshotCounter' = screenshotCounter
       /\ outcome'.at = "screenshot" =>
            /\ stuckCount' = stuckCount
            /\ lastUrl' = lastUrl
            /\ screenshotCounter' = screenshotCounter + 1
       /\ outcome'.at = "scan" =>
            /\ stuckCount' = stuckCount + 1
            /\ lastUrl' = lastUrl
       /\ outcome'.at = "wait" =>
            /\ stuckCount' = IF Url(Pages[page]) = lastUrl THEN stuckCount + 1 ELSE 0
            /\ lastUrl' = Url(Pages[page])]_vars

C9_Witness ==
  /\ outcome = [kind |-> "exception", at |-> "scan"]
  /\ stuckCount > LowThreshold
  /\ status = "RUNNING"

\* C10 as stated: a detect that fails counts as not matched, the archetypes
\* after it are still evaluated and the failure stays inside the pass.
C10_Original ==
  \A i \in 1..Len(calls) :
    (calls[i].op = "detect" /\ calls[i].res = "throw") =>
      /\ outcome.kind # "exception"
      /\ calls[i].name # stepTypes[Len(stepTypes)] =>
           (i < Len(calls) /\ calls[i + 1].op = "detect")

\* C10 (amended): a detect that fails ends the classifier pass: no archetype
\* after it is evaluated, no solve runs, and the failure reaches the catch of
\* the main loop, which counts the iteration as a retry.
C10_DetectFailureEndsPass ==
  \A i \in 1..Len(calls) :
    (calls[i].op = "detect" /\ calls[i].res = "throw") =>
      /\ i = Len(calls)
      /\ SolveCalls(calls) = {}
      /\ outcome = [kind |-> "exception", at |-> "detect"]
      /\ retryCount = iterations

C10_Witness ==
  /\ calls # <<>>
  /\ calls[Len(calls)] = Call("detect", "skip_button", "throw")
  /\ Detect("single_button", Pages[page])

HoldsList(file) ==
  /\ file.kind = "file"
  /\ JSON_parse(file.text).ok
  /\ JSON_parse(file.text).val.t = "arr"

\* C12 as stated: loadSeenValues returns the empty set for every store file
\* that is absent, unreadable, not valid JSON, or valid JSON that is not a
\* list (a number, an object, null, a bare string).
C12_Original ==
  (storeOp = "load" /\ ~HoldsList(storeFile)) => seenValues = << >>

\* C13: a load that follows a save returns the set that was saved, in the
\* same order (the empty set for an empty one); the set never holds a value
\* twice, and the file written holds the list of its values, each once.
C13_RoundTrip ==
  /\ \A i, j \in 1..Len(seenValues) : seenValues[i] = seenValues[j] => i = j
  /\ storeOp = "save" =>
       /\ loadSeenValues(storeFile) = seenValues
       /\ HoldsList(storeFile)
       /\ JSON_parse(storeFile.text).val = Arr(seenValues)

\* A set of two strings, one of them with a quote and a backslash, was saved
C13_Witness ==
  /\ storeOp = "save"
  /\ Len(seenValues) = 2
  /\ SetHas(seenValues, Str(<<"a", "\"", "b", "\\", "c">>))
  /\ SetHas(seenValues, Str(<<"a", "b", "c", "1", "2", "3">>))

\* el carries marker in its data-locator or, whatever the case, in its label
HasMarker(el, marker) ==
  \/ el.locator # NoLocator /\ Includes(el.locator[1], marker)
  \/ Includes(ToLowerCase(el.text), marker)

\* The clicks of a log that returned
OkClicks(done) == {k \in 1..Len(done) : done[k].op = "click" /\ done[k].res = "ok"}

\* C14: on a document whose only element is an enabled button with
\* "CTAButton" in its data-locator and no "back" or "skip" marker, the
\* classifier pass resolves single_button, and its solve returns after one
\* click call on that button and nothing else; the click lands unless the
\* button is hidden or the click itself rejects.
C14_SingleButtonOneClick ==
  (/\ ran.by = "pass"
   /\ Len(solvePage.elems) = 1
   /\ solvePage.elems[1].tag = "button"
   /\ solvePage.elems[1].enabled
   /\ solvePage.elems[1].locator # NoLocator
   /\ Includes(solvePage.elems[1].locator[1], <<"C", "T", "A", "B", "u", "t", "t", "o", "n">>)
   /\ ~HasMarker(solvePage.elems[1], <<"b", "a", "c", "k">>)
   /\ ~HasMarker(solvePage.elems[1], <<"s", "k", "i", "p">>)) =>
     /\ ran.name = "single_button"
     /\ ~solveThrew
     /\ Len(acts) = 1
     /\ acts[1].op = "click" /\ acts[1].target = 1
     /\ acts[1].res = "ok" <=> (solvePage.elems[1].visible /\ failingEl # 1)

\* The pass ran on a lone visible enabled CTAButton button and clicked it
C14_Witness ==
  /\ ran = [by |-> "pass", name |-> "single_button"]
  /\ solvePage.elems = << Button(Locator(<<"C", "T", "A", "B", "u", "t", "t", "o", "n">>), <<"C", "o", "n", "t", "i", "n", "u", "e">>, TRUE, TRUE) >>
  /\ acts = << [op |-> "click", target |-> 1, role |-> "cta", res |-> "ok"] >>

\* C18 as stated: skip_button.detect holds exactly when some visible, enabled
\* button has "skip" in its data-locator or label and "back" in neither; its
\* solve makes at most one successful click, on such a button, and does not
\* raise.
C18_Original ==
  ran = [by |-> "direct", name |-> "skip_button"] =>
    /\ detected <=>
         \E i \in Buttons(solvePage) :
           /\ solvePage.elems[i].visible
           /\ solvePage.elems[i].enabled
           /\ HasMarker(solvePage.elems[i], <<"s", "k", "i", "p">>)
           /\ ~HasMarker(solvePage.elems[i], <<"b", "a", "c", "k">>)
    /\ Cardinality(OkClicks(acts)) <= 1
    /\ \A k \in OkClicks(acts) :
         /\ HasMarker(solvePage.elems[acts[k].target], <<"s", "k", "i", "p">>)
         /\ ~HasMarker(solvePage.elems[acts[k].target], <<"b", "a", "c", "k">>)
    /\ ~solveThrew

ResultCandidate(el) ==
  /\ el.tag = "button"
  /\ el.visible
  /\ el.enabled
  /\ ~HasMarker(el, <<"b", "a", "c", "k">>)

\* C20 as stated: occasion_result_screen.detect holds exactly when the URL
\* contains "result" and no input has a data-locator attribute; its solve
\* makes at most one successful click, on a visible enabled button without
\* "back" marker, and does not raise, whether or not the visible buttons
\* have a data-locator attribute.
C20_Original ==
  ran = [by |-> "direct", name |-> "occasion_result_screen"] =>
    /\ detected <=>
         /\ Includes(Url(solvePage), <<"r", "e", "s", "u", "l", "t">>)
         /\ \A i \in Inputs(solvePage) : solvePage.elems[i].locator = NoLocator
    /\ Cardinality(OkClicks(acts)) <= 1
    /\ \A k \in OkClicks(acts) : ResultCandidate(solvePage.elems[acts[k].target])
    /\ (\A i \in 1..Len(solvePage.elems) : ~ResultCandidate(solvePage.elems[i])) =>
         acts = << >>
    /\ ~solveThrew

\* The failures of main() that happen before its try block is entered
PreTryFailures == {"launch", "newContext", "newPage", "mkdir"}

\* C15: once the loop has ended COMPLETE or ABORTED the browser is closed
\* and the process ends with no exit status set, unless closing fails; a
\* failure leaving main() (launch, context, page, navigation, close) ends
\* the process through process.exit(1) and never as a normal return; and
\* every run that entered the try block calls browser.close() exactly once.
C15_ExitPaths ==
  /\ closeCalls <= 1
  /\ pc = "returned" =>
       /\ COMPLETE \/ ABORTED
       /\ browser = "closed" /\ closeCalls = 1
       /\ exitCode = <<>> /\ failure = "none"
  /\ ((COMPLETE \/ ABORTED) /\ pc \in {"returned", "exited"}) =>
       /\ closeCalls = 1
       /\ exitCode = << 1 >> <=> failure = "close"
       /\ exitCode = <<>> <=> browser = "closed"
  /\ ((COMPLETE \/ ABORTED) /\ pc = "loop") => ENABLED LeaveTry
  /\ pc = "finally" => closeCalls = 0 /\ ENABLED Finally
  /\ pc = "rejected" => ENABLED CatchMain
  /\ failure # "none" => pc \in {"finally", "rejected", "exited"}
  /\ pc = "exited" =>
       /\ exitCode = << 1 >>
       /\ failure \in PreTryFailures \cup {"goto", "close"}
  /\ exitCode # <<>> => pc = "exited"
  /\ (pc \in {"returned", "exited"} /\ failure \notin PreTryFailures) =>
       closeCalls = 1

\* The loop ended COMPLETE and main() returned with the browser closed
C15_Witness ==
  /\ COMPLETE
  /\ pc = "returned"
  /\ browser = "closed"
  /\ closeCalls = 1

\* C16 as stated: a no-match iteration adds 1 to stuckCount when the page
\* is at the location it had in the iteration just before (of whatever
\* kind), and sets it to 0 otherwise.
C16_Original ==
  [][(iterations' = iterations + 1 /\ iterations >= 1 /\ iterations < StallWindow
        /\ outcome'.kind \in NoMatchKinds) =>
       stuckCount' = IF Url(Pages[page]) = prevUrl THEN stuckCount + 1 ELSE 0]_vars

\* C16 (amended): a no-match iteration adds 1 to stuckCount when the page is
\* at the location held in lastUrl, and sets it to 0 otherwise; lastUrl is
\* written only by a no-match iteration that reaches its wait, so progress
\* iterations and iterations that fail earlier leave the comparison value
\* untouched.
C16_StuckAgainstLastUrl ==
  [][(iterations' = iterations + 1 /\ iterations < StallWindow) =>
       /\ outcome'.kind \in NoMatchKinds =>
            stuckCount' = IF Url(Pages[page]) = lastUrl THEN stuckCount + 1 ELSE 0
       /\ lastUrl' = IF \/ outcome'.kind = "nomatch"
                        \/ outcome' = [kind |-> "exception", at |-> "wait"]
                     THEN Url(Pages[page])
                     ELSE lastUrl]_vars

\* A no-match iteration right after a progress iteration, with stuckCount 0
C16_Witness ==
  /\ iterations = 2
  /\ retryCount = 2
  /\ screenshotCounter = 1
  /\ outcome.kind = "nomatch"
  /\ lastUrl = prevUrl
  /\ stuckCount = 0

\* C17 as stated: an iteration whose diagnostic reads fail leaves stuckCount,
\* lastUrl and the continue / COMPLETE / ABORTED decision as the same
\* iteration leaves them when the reads succeed.
C17_Original ==
  [][(iterations' = iterations + 1 /\ iterations < StallWindow
        /\ outcome' = [kind |-> "exception", at |-> "diagnostics"]) =>
       LET ok == LoopBody([retryCount |-> retryCount, lastUrl |-> lastUrl,
                           stuckCount |-> stuckCount,
                           screenshotCounter |-> screenshotCounter,
                           status |-> status, outcome |-> NoOutcome, calls |-> <<>>],
                          page, NoFailure)
       IN /\ stuckCount' = ok.stuckCount
          /\ lastUrl' = ok.lastUrl
          /\ status' = ok.status]_vars

\* The body of the request parses as JSON to an object (an array is one)
\* that has the field as an own property, and its URL contains the endpoint
Qualifies(req) ==
  /\ Includes(req.url, askedEndpoint)
  /\ req.postData # << >>
  /\ JSON_parse(req.postData[1]).ok
  /\ JSON_parse(req.postData[1]).val.t \in {"obj", "arr"}
  /\ HasOwnProperty(JSON_parse(req.postData[1]).val, askedField)

\* C21 as stated: extractFieldFromRequests returns the value of the field
\* from the first captured request whose URL contains the endpoint and whose
\* body parses as JSON to an object having the field as an own property,
\* and null when no request qualifies.
\* Violated: a body that is a JSON string has "length" and its indices as
\* own properties, so the length or a character of the string is returned.
C21_Original ==
  gatePc = "called" =>
    LET qualifying == {i \in 1..Len(requests) : Qualifies(requests[i])}
        first == CHOOSE i \in qualifying : \A j \in qualifying : i <= j
    IN extracted = IF qualifying = {} THEN Null
                   ELSE GetProperty(JSON_parse(requests[first].postData[1]).val, askedField)

\* C22 as stated: the log monitorNetwork returned holds exactly the requests
\* whose events fired during the observation window, in arrival order; a
\* request event that fires after the window has closed does not change it.
\* Violated: the listener stays attached and pushes to the very array that
\* was returned, so a later request event lengthens the returned log.
C22_Original == returned # << >> => requests = returned[1]

\* C23 as stated: in every reachable state of the main loop
\* 0 <= stuckCount <= 11, 0 <= retryCount <= MAX_RETRIES and
\* 0 <= screenshotCounter <= retryCount; screenshotCounter and retryCount
\* never decrease.
\* Violated: a completion scan that rejects leaves the iteration through the
\* catch after stuckCount++ and before the stuck exit is tested, so
\* stuckCount passes 11.
C23_Original ==
  /\ [](/\ 0 <= stuckCount /\ stuckCount <= HighThreshold + 1
        /\ 0 <= retryCount /\ retryCount <= MAX_RETRIES
        /\ 0 <= screenshotCounter /\ screenshotCounter <= retryCount)
  /\ [][screenshotCounter' >= screenshotCounter /\ retryCount' >= retryCount]_vars

\* C24 as stated: whenever a classifier pass reports progress (stepSolved
\* is set), the solve of the matched archetype has performed at least one
\* click or fill on the page.
\* Violated: stepSolved is set as soon as solve returns, whatever it did; the
\* option solve returns without a click when its control is hidden.
C24_Original ==
  (ran.by = "pass" /\ detected /\ ~solveThrew) =>
    \E k \in 1..Len(acts) : acts[k].res = "ok"

(* ------------------------------------------------------------------ *)
(* The main loop on a page that has settled                             *)
(* ------------------------------------------------------------------ *)

\* One iteration of the main loop in which no awaited call rejects
SettledIteration ==
  /\ status = "RUNNING"
  /\ LoopCondition(retryCount)
  /\ LET r == LoopBody([retryCount |-> retryCount, lastUrl |-> lastUrl,
                        stuckCount |-> stuckCount,
                        screenshotCounter |-> screenshotCounter,
                        status |-> status, outcome |-> NoOutcome, calls |-> <<>>],
                       page, NoFailure)
     IN /\ retryCount' = r.retryCount
        /\ lastUrl' = r.lastUrl
        /\ stuckCount' = r.stuckCount
        /\ screenshotCounter' = r.screenshotCounter
        /\ status' = r.status
        /\ iterations' = iterations + 1
        /\ outcome' = IF iterations < StallWindow THEN r.outcome ELSE NoOutcome
        /\ prevUrl' = IF iterations < StallWindow THEN Url(Pages[page]) ELSE <<>>
        /\ noMatchRun' = IF iterations < StallWindow
                         THEN RunAfter(r.outcome.kind, page) ELSE NoRun
        /\ calls' = IF iterations < PassWindow THEN r.calls ELSE <<>>
  /\ UNCHANGED page
  /\ UNCHANGED auxVars

\* The document never changes and no call rejects; the loop keeps running
\* as long as its test holds
SettledNext == SettledIteration \/ LoopExit

SpecSettled == Init /\ [][SettledNext]_vars /\ WF_vars(SettledNext)

\* C25 as stated: when the location never changes, the page text always
\* contains completion vocabulary and the page no longer changes, the run
\* eventually ends as COMPLETE, also on a result screen that the
\* occasion_result_screen detector keeps matching.
\* Violated: while an archetype matches, every iteration is a progress
\* iteration, stuckCount stays 0, the completion scan is never made and the
\* run ends at the iteration ceiling.
C25_Original == IndicatorsOn[page] => <>COMPLETE

\* The condition single_button.detect tests on a button
CtaCondition(pg, i) ==
  LET locator == pg.elems[i].locator
  IN /\ pg.elems[i].tag = "button"
     /\ Truthy(locator)
     /\ \E marker \in {<<"C", "T", "A", "B", "u", "t", "t", "o", "n">>, <<"t", "C", "T", "A", "B", "u", "t", "t", "o", "n">>, <<"o", "b", "_", "c", "o", "n", "t", "i", "n", "u", "e", "_", "b", "t", "n">>, <<"o", "b", "C", "o", "n", "t", "i", "n", "u", "e">>} :
          Includes(locator[1], marker)
     /\ pg.elems[i].enabled
     /\ ~Includes(locator[1], <<"b", "a", "c", "k">>)

\* C26 as stated: the control single_button.solve clicks satisfies the
\* condition of single_button.detect on the same page state: an enabled
\* button whose data-locator has a call-to-action marker and no "back".
\* Violated: solve clicks the first button whose data-locator has a marker,
\* which may be a back-marked one standing before the button detect found.
C26_Original ==
  (ran.name = "single_button" /\ detected) =>
    \A k \in 1..Len(acts) : acts[k].res = "ok" => CtaCondition(solvePage, acts[k].target)

\* C27: on a page state that does not change during the classifier pass,
\* the solve of multi_option is never invoked: wherever multi_option.detect
\* holds, the detect of the earlier-registered multi_select_button holds as
\* well, so the pass stops at multi_select_button or before it, and it
\* does so on every such document whichever awaited call of the pass rejects.
C27_MultiOptionNeverSolved ==
  /\ multi_option_detect(solvePage) <=> multi_select_button_detect(solvePage)
  /\ ran.by = "pass" => ran.name # "multi_option"
  /\ (ran.by = "pass" /\ multi_option_detect(solvePage)) =>
       ran.name \in {"skip_button", "multi_select_button"}
  /\ (ran = NotRun /\ multi_option_detect(solvePage)) =>
       \A fail \in FailPoints :
         LET log == ClassifierPass(solvePage, fail).calls
         IN \A i \in 1..Len(log) : log[i].name = "multi_option" => log[i].op = "detect"

\* A pass on a page where multi_option.detect holds ran the solve of
\* multi_select_button, which clicked
C27_Witness ==
  /\ ran = [by |-> "pass", name |-> "multi_select_button"]
  /\ multi_option_detect(solvePage)
  /\ acts # << >>

====
